---- MODULE Spec2Model ----
(***************************************************************************)
(* Connection Prep Agent (app.py): text chunking, chunked summarization,   *)
(* brief generation with defensive JSON extraction, and rendering.         *)
(*                                                                         *)
(* Strings are sequences of symbols.  A symbol is one character, except    *)
(* that a quoted JSON string literal is a single symbol (StrLits); no      *)
(* literal contains a brace, a dash or a newline, so find/rfind/replace    *)
(* never look inside one.                                                  *)
(***************************************************************************)
EXTENDS Integers, Sequences, FiniteSets, TLC

VARIABLES
    \* ---- chunk_text, run step by step (SpecChunk) ----
    text,           \* the argument s as passed by the caller
    stripped,       \* local s after s = s.strip()
    chunk_size,     \* chunk_size argument
    overlap,        \* overlap argument
    start,          \* local start
    chunks,         \* local chunks
    spans,          \* history: <<start, end>> of every chunk appended
    cpc,            \* position in chunk_text: "call", "loop", "done"
    \* ---- the run handler (Spec) ----
    engine, max_output_bullets, include_agenda, include_dm_email,
    profile_text, posts_text, goal_text,
    pc,             \* position in the run handler
    stage,          \* which summarize_long_text call is active
    parts,          \* summarize_long_text: parts
    summaries,      \* summarize_long_text: summaries
    profile_sum, posts_sum,
    template,       \* the instruction text sent to the generator
    raw,            \* generated_text
    brief,          \* the value generate_brief returned
    screen,         \* headings written to the page
    md_content,     \* data of the download button
    sum_calls,      \* history: every summarizer invocation
    gen_calls,      \* history: every generator invocation
    exc             \* the exception that left the run handler, or "none"

chunkVars == <<text, stripped, chunk_size, overlap, start, chunks, spans, cpc>>
inputVars == <<engine, max_output_bullets, include_agenda, include_dm_email,
               profile_text, posts_text, goal_text>>
summVars  == <<stage, parts, summaries, profile_sum, posts_sum, sum_calls>>
genVars   == <<template, raw, brief, gen_calls>>
viewVars  == <<screen, md_content>>
vars == <<chunkVars, inputVars, pc, summVars, genVars, viewVars, exc>>

----------------------------------------------------------------------------
(* Bounds *)

MaxLen   == 4      \* longest text given to chunk_text in SpecChunk
MaxChunk == 3      \* largest chunk_size in SpecChunk

----------------------------------------------------------------------------
(* Python string helpers *)

Min(a, b) == IF a < b THEN a ELSE b
Max(a, b) == IF a > b THEN a ELSE b

NL == "\n"
Whitespace == {" ", NL}

\* s[a:b] for 0 <= a, with Python's clamping of b to len(s)
Slice(s, a, b) == SubSeq(s, a + 1, Min(b, Len(s)))

RECURSIVE lstrip(_)
lstrip(s) == IF s # <<>> /\ Head(s) \in Whitespace THEN lstrip(Tail(s)) ELSE s

RECURSIVE rstrip(_)
rstrip(s) ==
    IF s # <<>> /\ s[Len(s)] \in Whitespace
    THEN rstrip(SubSeq(s, 1, Len(s) - 1)) ELSE s

\* str.strip()
strip(s) == rstrip(lstrip(s))

SeqsUpTo(S, n) == UNION { [1..k -> S] : k \in 0..n }

----------------------------------------------------------------------------
(* chunk_text *)

\* end = min(start + chunk_size, n)
ChunkEnd(st, size, n) == Min(st + size, n)

NextStartSignSlip(end, ov) == IF end + ov < 0 THEN 0 ELSE end + ov
NextStartOffByOne(end, ov) == IF end - ov - 1 < 0 THEN 0 ELSE end - ov - 1
\* start = end - overlap; if start < 0: start = 0
NextStart(end, ov) == IF end - ov < 0 THEN 0 ELSE end - ov

\* the while loop of chunk_text, from a given start
RECURSIVE ChunkLoop(_, _, _, _, _)
ChunkLoop(s, size, ov, st, acc) ==
    IF ~(st < Len(s)) THEN acc
    ELSE LET end == ChunkEnd(st, size, Len(s))
             acc2 == Append(acc, Slice(s, st, end))
         IN  IF end = Len(s) THEN acc2
             ELSE ChunkLoop(s, size, ov, NextStart(end, ov), acc2)

chunk_text(s0, size, ov) ==
    LET s == strip(s0) IN
    IF s = <<>> THEN <<>> ELSE ChunkLoop(s, size, ov, 0, <<>>)

----------------------------------------------------------------------------
(* JSON values and json.loads *)

LBRACE == "{"
RBRACE == "}"
EMDASH == "U+2014"
ENDASH == "U+2013"

\* quoted string literals, each one symbol, and the text between the quotes
StrLits == {"\"profile_snapshot\"", "\"top_skills\"", "\"sample_dm\"",
            "\"meeting_agenda\"", "\"raw_text\"", "\"v\"", "\"\""}

LitName(lit) ==
    CASE lit = "\"profile_snapshot\"" -> "profile_snapshot"
      [] lit = "\"top_skills\""       -> "top_skills"
      [] lit = "\"sample_dm\""        -> "sample_dm"
      [] lit = "\"meeting_agenda\""   -> "meeting_agenda"
      [] lit = "\"raw_text\""         -> "raw_text"
      [] lit = "\"v\""                -> "v"
      [] OTHER                        -> ""

\* the characters of a string holding the one word w ("" is the empty string)
Word(w) == IF w = "" THEN <<>> ELSE <<w>>

\* Python values: str, int, list, dict (one record shape for all four)
VStr(txt)         == [t |-> "str",  txt |-> txt,  n |-> 0, keys |-> <<>>, items |-> <<>>]
VNum(k)           == [t |-> "int",  txt |-> <<>>, n |-> k, keys |-> <<>>, items |-> <<>>]
VList(its)        == [t |-> "list", txt |-> <<>>, n |-> 0, keys |-> <<>>, items |-> its]
VDict(ks, its)    == [t |-> "dict", txt |-> <<>>, n |-> 0, keys |-> ks,   items |-> its]

IndexOf(sq, x) ==
    IF \E i \in 1..Len(sq) : sq[i] = x
    THEN CHOOSE i \in 1..Len(sq) : sq[i] = x /\ \A j \in 1..(i - 1) : sq[j] # x
    ELSE 0

HasKey(d, k) == d.t = "dict" /\ IndexOf(d.keys, k) # 0

\* d[k] = v on a dict: a repeated key keeps its place and takes the new value
DictSet(ks, its, k, v) ==
    IF IndexOf(ks, k) # 0
    THEN [keys |-> ks, items |-> [its EXCEPT ![IndexOf(ks, k)] = v]]
    ELSE [keys |-> Append(ks, k), items |-> Append(its, v)]

\* b.get(k, default)
DictGet(d, k, default) ==
    IF IndexOf(d.keys, k) # 0 THEN d.items[IndexOf(d.keys, k)] ELSE default

\* bool(v)
Truthy(v) ==
    CASE v.t = "str"  -> v.txt # <<>>
      [] v.t = "int"  -> v.n # 0
      [] v.t = "list" -> v.items # <<>>
      [] OTHER        -> v.keys # <<>>

JsonWs == {" ", NL}

RECURSIVE SkipWs(_, _)
SkipWs(s, i) == IF i <= Len(s) /\ s[i] \in JsonWs THEN SkipWs(s, i + 1) ELSE i

ParseFail == [ok |-> FALSE, val |-> VNum(0), pos |-> 0]
ParseOk(v, p) == [ok |-> TRUE, val |-> v, pos |-> p]

\* digits from position i on: the only digit symbol is "1"
RECURSIVE ParseDigits(_, _, _)
ParseDigits(s, i, acc) ==
    IF i <= Len(s) /\ s[i] = "1" THEN ParseDigits(s, i + 1, 10 * acc + 1)
    ELSE [n |-> acc, pos |-> i]

RECURSIVE ParseValue(_, _)
RECURSIVE ParseElements(_, _, _)
RECURSIVE ParseMembers(_, _, _, _)

\* one JSON value starting at position i (1-based)
ParseValue(s, i) ==
    IF i > Len(s) THEN ParseFail
    ELSE CASE s[i] \in StrLits -> ParseOk(VStr(Word(LitName(s[i]))), i + 1)
           [] s[i] = "1" ->
                LET d == ParseDigits(s, i, 0) IN ParseOk(VNum(d.n), d.pos)
           [] s[i] = "-" /\ i + 1 <= Len(s) /\ s[i + 1] = "1" ->
                LET d == ParseDigits(s, i + 1, 0) IN ParseOk(VNum(0 - d.n), d.pos)
           [] s[i] = "[" ->
                LET j == SkipWs(s, i + 1) IN
                IF j <= Len(s) /\ s[j] = "]" THEN ParseOk(VList(<<>>), j + 1)
                ELSE ParseElements(s, j, <<>>)
           [] s[i] = LBRACE ->
                LET j == SkipWs(s, i + 1) IN
                IF j <= Len(s) /\ s[j] = RBRACE THEN ParseOk(VDict(<<>>, <<>>), j + 1)
                ELSE ParseMembers(s, j, <<>>, <<>>)
           [] OTHER -> ParseFail

\* the elements of an array, the first of them at position i
ParseElements(s, i, acc) ==
    LET v == ParseValue(s, i) IN
    IF ~v.ok THEN ParseFail
    ELSE LET j == SkipWs(s, v.pos) IN
         IF j > Len(s) THEN ParseFail
         ELSE IF s[j] = "," THEN ParseElements(s, SkipWs(s, j + 1), Append(acc, v.val))
         ELSE IF s[j] = "]" THEN ParseOk(VList(Append(acc, v.val)), j + 1)
         ELSE ParseFail

\* the members of an object, the first key at position i
ParseMembers(s, i, ks, its) ==
    IF i > Len(s) \/ s[i] \notin StrLits THEN ParseFail
    ELSE LET c == SkipWs(s, i + 1) IN
         IF c > Len(s) \/ s[c] # ":" THEN ParseFail
         ELSE LET v == ParseValue(s, SkipWs(s, c + 1)) IN
              IF ~v.ok THEN ParseFail
              ELSE LET d == DictSet(ks, its, LitName(s[i]), v.val)
                       j == SkipWs(s, v.pos)
                   IN  IF j > Len(s) THEN ParseFail
                       ELSE IF s[j] = "," THEN ParseMembers(s, SkipWs(s, j + 1), d.keys, d.items)
                       ELSE IF s[j] = RBRACE THEN ParseOk(VDict(d.keys, d.items), j + 1)
                       ELSE ParseFail

\* json.loads(s): ok = FALSE stands for JSONDecodeError
json_loads(s) ==
    LET v == ParseValue(s, SkipWs(s, 1)) IN
    IF v.ok /\ SkipWs(s, v.pos) = Len(s) + 1 THEN v ELSE ParseFail

----------------------------------------------------------------------------
(* extract_json *)

\* s.find(c): 0-based index of the first c, or -1
find(s, c) == IndexOf(s, c) - 1

\* s.rfind(c): 0-based index of the last c, or -1
rfind(s, c) ==
    IF \E i \in 1..Len(s) : s[i] = c
    THEN (CHOOSE i \in 1..Len(s) : s[i] = c /\ \A j \in (i + 1)..Len(s) : s[j] # c) - 1
    ELSE -1

StartsWith(s, old) == Len(s) >= Len(old) /\ SubSeq(s, 1, Len(old)) = old

\* s.replace(old, new), old non-empty
RECURSIVE replace(_, _, _)
replace(s, old, new) ==
    IF s = <<>> THEN <<>>
    ELSE IF StartsWith(s, old)
         THEN new \o replace(SubSeq(s, Len(old) + 1, Len(s)), old, new)
         ELSE <<Head(s)>> \o replace(Tail(s), old, new)

\* lines 157-160: cut s down to the span from the first { to the last }
BraceSpan(s) ==
    LET st == find(s, LBRACE)
        en == rfind(s, RBRACE)
    IN  IF st # -1 /\ en # -1 /\ en > st THEN Slice(s, st, en + 1) ELSE s

\* lines 165-166: the "lightweight fixes"
Normalize(s) ==
    replace(replace(replace(s, <<NL, "-", " ">>, <<NL>>), <<EMDASH>>, <<"-">>),
            <<ENDASH>>, <<"-">>)

\* lines 154-170
extract_json(s0) ==
    LET s1 == BraceSpan(strip(s0))
        first == json_loads(s1)
        s2 == Normalize(s1)
        second == json_loads(s2)
    IN  IF first.ok THEN first.val
        ELSE IF second.ok THEN second.val
        ELSE VDict(<<"raw_text">>, <<VStr(s2)>>)

----------------------------------------------------------------------------
(* The run handler: generate_brief and the render step *)

SummOnly == "Summarization-only (fastest, least smart)"
Quality  == "Quality (FLAN-T5-base + DistilBART)"
Fast     == "Fast (FLAN-T5-small + DistilBART)"
Engines  == {Fast, Quality, SummOnly}

CHUNK_SIZE == 1600
OVERLAP == 150
MinBullets == 3
SnapshotCut == 700

load_modelsAlwaysGenerator(engine_name) ==
    [summarizer |-> "distilbart-cnn-12-6", generator |-> "flan-t5-small"]
\* lines 49-59
load_models(engine_name) ==
    IF engine_name = SummOnly
    THEN [summarizer |-> "distilbart-cnn-12-6", generator |-> "None"]
    ELSE IF engine_name = Quality
    THEN [summarizer |-> "distilbart-cnn-12-6", generator |-> "flan-t5-base"]
    ELSE [summarizer |-> "distilbart-cnn-12-6", generator |-> "flan-t5-small"]

\* length hints of the two summarize_long_text calls (lines 99-100)
MaxLenHint(stg) == IF stg = "profile" THEN 220 ELSE 150
MinLenHint(stg) == IF stg = "profile" THEN 80 ELSE 60

TextOf(stg) == IF stg = "profile" THEN profile_text ELSE posts_text

\* " ".join(seq of strings)
RECURSIVE JoinSpace(_)
JoinSpace(ss) ==
    IF ss = <<>> THEN <<>>
    ELSE IF Len(ss) = 1 THEN ss[1]
    ELSE ss[1] \o <<" ">> \o JoinSpace(Tail(ss))

NeedsMergeAlways(sums) == TRUE
\* line 87, negated: the merge pass runs unless there is exactly one summary
NeedsMerge(sums) == Len(sums) # 1

\* lines 105-116: the brief of the summarization-only engine
HeuristicBrief(psum, qsum) ==
    VDict(<<"profile_snapshot", "top_skills", "domain_knowledge",
            "mutual_interests", "talking_points", "icebreakers",
            "opening_question", "sample_dm", "email_subject", "meeting_agenda">>,
          <<VStr(Slice(psum, 0, SnapshotCut)), VList(<<>>), VList(<<>>),
            VList(<<>>),
            IF qsum # <<>> THEN VList(<<VStr(qsum)>>) ELSE VList(<<>>),
            VList(<<>>), VStr(<<>>), VStr(<<>>), VStr(<<>>), VList(<<>>)>>)

\* lines 120-150: the instruction text; a line left out is an empty line
Template(ptext, psum, qsum, goal, bullets, agenda, dm_email) ==
    [lines |-> <<"profile_snapshot", "top_skills", "domain_knowledge",
                 "mutual_interests", "talking_points", "icebreakers",
                 "opening_question",
                 IF dm_email THEN "sample_dm" ELSE "",
                 IF dm_email THEN "email_subject" ELSE "",
                 IF agenda THEN "meeting_agenda" ELSE "">>,
     bullets |-> bullets,
     mutual_max |-> Max(3, Min(bullets, 6)),
     profile |-> ptext, profile_summary |-> psum,
     posts_summary |-> qsum, goal |-> strip(goal)]

----------------------------------------------------------------------------
(* The render step (lines 196-275) *)

\* the decimal digits of a non-negative int whose digits are all 1
RECURSIVE Digits(_)
Digits(k) == IF k < 10 THEN (IF k = 0 THEN <<"0">> ELSE <<"1">>)
             ELSE Digits(k \div 10) \o <<"1">>

\* str(x); the repr of a list or dict is some non-blank text
PyStr(v) ==
    CASE v.t = "str" -> v.txt
      [] v.t = "int" -> IF v.n < 0 THEN <<"-">> \o Digits(0 - v.n) ELSE Digits(v.n)
      [] OTHER       -> <<"repr">>

\* "".join([f"- {x}\n" for x in arr]) over the stripped, non-blank str(x)
RECURSIVE BulletLines(_)
BulletLines(its) ==
    IF its = <<>> THEN <<>>
    ELSE LET x == strip(PyStr(Head(its))) IN
         (IF x = <<>> THEN <<>> ELSE <<"- ">> \o x \o <<NL>>) \o BulletLines(Tail(its))

\* the keys of a dict as str values: what iterating a dict yields
KeysAsValues(ks) == [i \in 1..Len(ks) |-> VStr(Word(ks[i]))]

\* lines 201-206; ok = FALSE stands for the TypeError of iterating an int
join_bullets(b, key) ==
    LET got == DictGet(b, key, VList(<<>>))
        arr == IF Truthy(got) THEN got ELSE VList(<<>>)
    IN  CASE arr.t = "str"  -> [ok |-> TRUE, md |-> BulletLines(<<arr>>)]
          [] arr.t = "list" -> [ok |-> TRUE, md |-> BulletLines(arr.items)]
          [] arr.t = "dict" -> [ok |-> TRUE, md |-> BulletLines(KeysAsValues(arr.keys))]
          [] OTHER          -> [ok |-> FALSE, md |-> <<>>]

\* b.get(key, '').strip(); ok = FALSE stands for the AttributeError
StripField(b, key) ==
    LET got == DictGet(b, key, VStr(<<>>)) IN
    IF got.t = "str" THEN [ok |-> TRUE, md |-> strip(got.txt)]
    ELSE [ok |-> FALSE, md |-> <<>>]

\* lines 231-234: a section written only when the key is present and truthy
OptionalField(b, key, heading) ==
    IF HasKey(b, key) /\ Truthy(DictGet(b, key, VStr(<<>>)))
    THEN LET f == StripField(b, key) IN [ok |-> f.ok, md |-> <<heading>> \o f.md]
    ELSE [ok |-> TRUE, md |-> <<>>]

\* lines 235-236
AgendaSection(b) ==
    IF HasKey(b, "meeting_agenda") /\ Truthy(DictGet(b, "meeting_agenda", VStr(<<>>)))
    THEN LET j == join_bullets(b, "meeting_agenda") IN
         [ok |-> j.ok, md |-> <<"## Suggested Agenda">> \o j.md]
    ELSE [ok |-> TRUE, md |-> <<>>]

\* lines 200-237
as_markdown(b) ==
    LET snap == StripField(b, "profile_snapshot")
        sk   == join_bullets(b, "top_skills")
        dk   == join_bullets(b, "domain_knowledge")
        mi   == join_bullets(b, "mutual_interests")
        tp   == join_bullets(b, "talking_points")
        ib   == join_bullets(b, "icebreakers")
        oq   == StripField(b, "opening_question")
        dm   == OptionalField(b, "sample_dm", "## Sample LinkedIn DM")
        es   == OptionalField(b, "email_subject", "**Email subject:**")
        ag   == AgendaSection(b)
    IN  [ok |-> snap.ok /\ sk.ok /\ dk.ok /\ mi.ok /\ tp.ok /\ ib.ok /\ oq.ok
                /\ dm.ok /\ es.ok /\ ag.ok,
         md |-> <<"# Connection Prep Brief", "**Snapshot**">> \o snap.md
                \o <<"## Top Skills">> \o sk.md
                \o <<"## Domain Knowledge">> \o dk.md
                \o <<"## Mutual Interests">> \o mi.md
                \o <<"## Talking Points">> \o tp.md
                \o <<"## Icebreakers">> \o ib.md
                \o <<"**Opening question:**">> \o oq.md
                \o dm.md \o es.md \o ag.md]

\* lines 246-270: the headings of the structured view
StructuredHeadings(b) ==
    <<"Brief", "**Snapshot:**", "**Top Skills:**", "**Domain Knowledge:**",
      "**Mutual Interests:**", "**Talking Points:**", "**Icebreakers:**",
      "**Opening Question:**">>
    \o (IF HasKey(b, "sample_dm") THEN <<"**Sample LinkedIn DM:**">> ELSE <<>>)
    \o (IF HasKey(b, "email_subject") THEN <<"**Email Subject:**">> ELSE <<>>)
    \o (IF HasKey(b, "meeting_agenda") THEN <<"**Suggested Agenda:**">> ELSE <<>>)

\* "raw_text" in b, for the types generate_brief can return
ContainsRawText(b) ==
    CASE b.t = "dict" -> HasKey(b, "raw_text")
      [] b.t = "list" -> \E i \in 1..Len(b.items) :
                            b.items[i].t = "str" /\ b.items[i].txt = <<"raw_text">>
      [] b.t = "str"  -> \E i \in 1..Len(b.txt) : b.txt[i] = "raw_text"
      [] OTHER        -> FALSE

\* lines 196-275 on the value b that generate_brief returned: what reaches the
\* page, the download data, and whether an exception ended the script
RenderBrief(b) ==
    IF b.t = "int"
    THEN [ok |-> FALSE, screen |-> <<"Brief ready!">>, md |-> <<>>]
    ELSE IF ContainsRawText(b)
    THEN IF b.t = "dict" /\ DictGet(b, "raw_text", VStr(<<>>)).t = "str"
         THEN [ok |-> TRUE, screen |-> <<"Brief ready!", "Brief (Unstructured)">>,
               md |-> DictGet(b, "raw_text", VStr(<<>>)).txt]
         ELSE [ok |-> FALSE, screen |-> <<"Brief ready!", "Brief (Unstructured)">>,
               md |-> <<>>]
    ELSE IF b.t # "dict"
    THEN [ok |-> FALSE, screen |-> <<"Brief ready!", "Brief">>, md |-> <<>>]
    ELSE LET m == as_markdown(b) IN
         IF m.ok
         THEN [ok |-> TRUE, screen |-> <<"Brief ready!">> \o StructuredHeadings(b),
               md |-> m.md]
         ELSE [ok |-> FALSE, screen |-> <<"Brief ready!">> \o StructuredHeadings(b),
               md |-> <<>>]

----------------------------------------------------------------------------
(* Inputs of the run handler and outputs of the two models *)

MaxBullets == 4     \* the slider goes from MinBullets up to this value
MaxItems == 5       \* longest bullet list in a generated answer

\* a text of n non-blank characters
LongText(n) == [i \in 1..n |-> IF i % 3 = 0 THEN "b" ELSE "a"]

ProfileTexts == {<<>>, <<" ">>, <<" ", "a", " ">>,
                 LongText(CHUNK_SIZE), LongText(CHUNK_SIZE + 1), LongText(4000)}
PostsTexts == {<<>>, <<"b">>, LongText(CHUNK_SIZE + 1)}
ShortProfileTexts == {<<>>, <<" ", "a", " ">>}
ShortPostsTexts == {<<>>, <<"b">>}
GoalTexts == {<<" ", "g">>}

\* summary_text values the summarizer may return
SummaryOutputs == {<<"p">>, <<"q">>}

V == "\"v\""

RECURSIVE Items(_)
Items(k) == IF k = 0 THEN <<>>
            ELSE IF k = 1 THEN <<V>> ELSE <<V, ",">> \o Items(k - 1)

ListOf(k) == <<"[">> \o Items(k) \o <<"]">>
Obj(key, val) == <<LBRACE, key, ":">> \o val \o <<RBRACE>>

\* generated_text values the generator may return
GenOutputs ==
    { Obj("\"top_skills\"", ListOf(k)) : k \in 0..MaxItems }
    \cup { <<"x", " ">> \o Obj("\"profile_snapshot\"", <<V>>) \o <<" ", "x">>,
           <<LBRACE, "\"profile_snapshot\"", ":", V, ",", " ",
             "\"top_skills\"", ":">> \o ListOf(2) \o <<RBRACE>>,
           Obj("\"meeting_agenda\"", ListOf(1)),
           Obj("\"meeting_agenda\"", <<V>>),
           Obj("\"sample_dm\"", <<V>>),
           Obj("\"sample_dm\"", <<"1">>),
           Obj("\"profile_snapshot\"", ListOf(1)),
           Obj("\"top_skills\"", <<"1">>),
           Obj("\"raw_text\"", <<V>>),
           Obj("\"raw_text\"", ListOf(1)),
           <<LBRACE, "\"raw_text\"", ":", V, ",", "\"top_skills\"", ":", V, RBRACE>>,
           <<LBRACE, "\"top_skills\"", ":", "[", NL, "-", " ", V, "]", RBRACE>>,
           <<LBRACE, "\"top_skills\"", ":", EMDASH, "1", RBRACE>>,
           <<LBRACE, RBRACE>> }
    \cup { <<>>, <<"x">>, <<"x", " ", "x">>, <<" ", "x">>, <<"x", NL>>,
           <<"x", EMDASH, "x">>, <<"x", ENDASH, "x">>,
           <<"x", NL, "-", " ", "x">> }
    \cup { <<"x", " ", LBRACE, "x", RBRACE, " ", "x">>, <<LBRACE, "x", RBRACE>>,
           <<RBRACE, "x", LBRACE>>, <<LBRACE, "x">>,
           <<LBRACE, "x", EMDASH, "x", RBRACE>> }
    \cup { <<"1">>, <<"-", "1">>, ListOf(1), <<V>>, <<"\"raw_text\"">>,
           <<"[", "\"raw_text\"", "]">> }

----------------------------------------------------------------------------
(* The run handler as a step machine *)

ChunkIdle ==
    /\ text = <<>> /\ stripped = <<>> /\ chunk_size = 1 /\ overlap = 0
    /\ start = 0 /\ chunks = <<>> /\ spans = <<>> /\ cpc = "off"

\* The inputs of a run: every engine with every pair of texts under the
\* default check boxes, and every setting of the sidebar with the short texts.
Init ==
    /\ engine \in Engines
    /\ \/ /\ max_output_bullets = MinBullets
          /\ include_agenda = TRUE
          /\ include_dm_email = TRUE
          /\ profile_text \in ProfileTexts
          /\ posts_text \in PostsTexts
       \/ /\ max_output_bullets \in MinBullets..MaxBullets
          /\ include_agenda \in BOOLEAN
          /\ include_dm_email \in BOOLEAN
          /\ profile_text \in ShortProfileTexts
          /\ posts_text \in ShortPostsTexts
    /\ goal_text \in GoalTexts
    /\ pc = "run" /\ stage = "none" /\ parts = <<>> /\ summaries = <<>>
    /\ profile_sum = <<>> /\ posts_sum = <<>>
    /\ sum_calls = [profile |-> <<>>, posts |-> <<>>]
    /\ template = <<>> /\ raw = <<>> /\ brief = <<>> /\ gen_calls = <<>>
    /\ screen = <<>> /\ md_content = <<>> /\ exc = "none"
    /\ ChunkIdle

\* summarize_long_text returns v to generate_brief (lines 99-100)
SummReturn(stg, v) ==
    /\ IF stg = "profile"
       THEN profile_sum' = v /\ pc' = "posts" /\ UNCHANGED posts_sum
       ELSE posts_sum' = v /\ pc' = "synth" /\ UNCHANGED profile_sum
    /\ parts' = <<>> /\ summaries' = <<>>

\* lines 191-196: the button was pressed; generate_brief loads the models
Run ==
    /\ pc = "run"
    /\ pc' = "profile"
    /\ UNCHANGED <<inputVars, summVars, genVars, viewVars, exc, chunkVars>>

\* lines 99/100 and 80-83: the call of summarize_long_text for one input
SummEnter(stg) ==
    /\ pc = stg
    /\ stage' = stg
    /\ IF TextOf(stg) = <<>> \/ strip(TextOf(stg)) = <<>>
       THEN SummReturn(stg, <<>>)
       ELSE /\ parts' = chunk_text(TextOf(stg), CHUNK_SIZE, OVERLAP)
            /\ summaries' = <<>>
            /\ pc' = "summ"
            /\ UNCHANGED <<profile_sum, posts_sum>>
    /\ UNCHANGED <<inputVars, sum_calls, genVars, viewVars, exc, chunkVars>>

SummCall(input, output, ok) ==
    [input |-> input, max_length |-> MaxLenHint(stage),
     min_length |-> MinLenHint(stage), output |-> output, ok |-> ok]

\* lines 84-88: the summarizer answers for the next chunk
SummChunkOk ==
    /\ pc = "summ"
    /\ Len(summaries) < Len(parts)
    /\ \E out \in SummaryOutputs :
        LET p == parts[Len(summaries) + 1]
            sums == Append(summaries, out)
        IN  /\ sum_calls' = [sum_calls EXCEPT ![stage] = Append(@, SummCall(p, out, TRUE))]
            /\ IF Len(sums) < Len(parts)
               THEN summaries' = sums /\ UNCHANGED <<parts, pc, profile_sum, posts_sum>>
               ELSE IF NeedsMerge(sums)
               THEN summaries' = sums /\ pc' = "merge"
                    /\ UNCHANGED <<parts, profile_sum, posts_sum>>
               ELSE SummReturn(stage, sums[1])
    /\ UNCHANGED <<inputVars, stage, genVars, viewVars, exc, chunkVars>>

\* line 85 raises: nothing catches it up to the top of the script
SummChunkFail ==
    /\ pc = "summ"
    /\ Len(summaries) < Len(parts)
    /\ sum_calls' = [sum_calls EXCEPT ![stage] =
                        Append(@, SummCall(parts[Len(summaries) + 1], <<>>, FALSE))]
    /\ pc' = "crashed"
    /\ exc' = "summarizer"
    /\ UNCHANGED <<inputVars, stage, parts, summaries, profile_sum, posts_sum,
                   genVars, viewVars, chunkVars>>

\* lines 90-92: the merge pass answers
SummMergeOk ==
    /\ pc = "merge"
    /\ \E out \in SummaryOutputs :
        /\ sum_calls' = [sum_calls EXCEPT ![stage] =
                            Append(@, SummCall(JoinSpace(summaries), out, TRUE))]
        /\ SummReturn(stage, out)
    /\ UNCHANGED <<inputVars, stage, genVars, viewVars, exc, chunkVars>>

\* line 91 raises
SummMergeFail ==
    /\ pc = "merge"
    /\ sum_calls' = [sum_calls EXCEPT ![stage] =
                        Append(@, SummCall(JoinSpace(summaries), <<>>, FALSE))]
    /\ pc' = "crashed"
    /\ exc' = "summarizer"
    /\ UNCHANGED <<inputVars, stage, parts, summaries, profile_sum, posts_sum,
                   genVars, viewVars, chunkVars>>

\* lines 101-150: no generator gives the heuristic brief, else the prompt
Synthesize ==
    /\ pc = "synth"
    /\ IF load_models(engine).generator = "None"
       THEN /\ brief' = HeuristicBrief(profile_sum, posts_sum)
            /\ pc' = "render"
            /\ UNCHANGED template
       ELSE /\ template' = Template(profile_text, profile_sum, posts_sum, goal_text,
                                    max_output_bullets, include_agenda, include_dm_email)
            /\ pc' = "gen"
            /\ UNCHANGED brief
    /\ UNCHANGED <<inputVars, summVars, raw, gen_calls, viewVars, exc, chunkVars>>

GenCall(ok) ==
    [input |-> template, max_length |-> 768, ok |-> ok,
     summarizer_calls |-> Len(sum_calls.profile) + Len(sum_calls.posts)]

\* lines 151-172: the generator answers and extract_json builds the result
GenerateOk ==
    /\ pc = "gen"
    /\ \E out \in GenOutputs :
        /\ raw' = out
        /\ brief' = extract_json(out)
    /\ gen_calls' = Append(gen_calls, GenCall(TRUE))
    /\ pc' = "render"
    /\ UNCHANGED <<inputVars, summVars, template, viewVars, exc, chunkVars>>

\* line 151 raises
GenerateFail ==
    /\ pc = "gen"
    /\ gen_calls' = Append(gen_calls, GenCall(FALSE))
    /\ pc' = "crashed"
    /\ exc' = "generator"
    /\ UNCHANGED <<inputVars, summVars, template, raw, brief, viewVars, chunkVars>>

\* lines 196-275
Render ==
    /\ pc = "render"
    /\ LET r == RenderBrief(brief) IN
        /\ screen' = r.screen
        /\ md_content' = r.md
        /\ IF r.ok THEN pc' = "done" /\ UNCHANGED exc
           ELSE pc' = "crashed" /\ exc' = "render"
    /\ UNCHANGED <<inputVars, summVars, genVars, chunkVars>>

Next ==
    \/ Run
    \/ SummEnter("profile")
    \/ SummEnter("posts")
    \/ SummChunkOk
    \/ SummChunkFail
    \/ SummMergeOk
    \/ SummMergeFail
    \/ Synthesize
    \/ GenerateOk
    \/ GenerateFail
    \/ Render

Spec == Init /\ [][Next]_vars

----------------------------------------------------------------------------
(* Properties of the run handler *)

Range(f) == { f[i] : i \in DOMAIN f }

SumOf(stg) == IF stg = "profile" THEN profile_sum ELSE posts_sum

\* summarize_long_text for stg has returned to generate_brief
SummReturned(stg) ==
    IF stg = "profile"
    THEN \/ pc \in {"posts", "synth", "gen", "render", "done"}
         \/ stage = "posts" /\ pc \in {"summ", "merge", "crashed"}
    ELSE \/ pc \in {"synth", "gen", "render", "done"}
         \/ pc = "crashed" /\ exc \in {"generator", "render"}

\* generate_brief has returned a value to the run handler
AfterSynthesis == pc \in {"render", "done"} \/ (pc = "crashed" /\ exc = "render")

\* a generated text came back and went through extract_json
GeneratorAnswered == AfterSynthesis /\ gen_calls # <<>>

IsBriefSections(b) == b.t = "dict" /\ ~HasKey(b, "raw_text")
IsRawBrief(b) == b.t = "dict" /\ b.keys = <<"raw_text">> /\ b.items[1].t = "str"

Outputs(calls, k) == [i \in 1..k |-> calls[i].output]

\* C2: with a summarizer that does not fail, a text of k chunks gives one
\* summarizer call per chunk, in chunk order, and, only when k >= 2, one more
\* call on the space-joined chunk summaries; 1 call and the chunk's summary
\* returned when k = 1, k + 1 calls and the merge output returned when
\* k >= 2; 4000 characters give 3 chunks and 4 calls.
C2_CallsPerChunkPlusMerge ==
    \A stg \in {"profile", "posts"} :
        SummReturned(stg) =>
            LET P == chunk_text(TextOf(stg), CHUNK_SIZE, OVERLAP)
                k == Len(P)
                calls == sum_calls[stg]
            IN  /\ \A i \in 1..Len(calls) : calls[i].ok
                /\ k = 0 => calls = <<>> /\ SumOf(stg) = <<>>
                /\ k = 1 => /\ Len(calls) = 1
                            /\ calls[1].input = P[1]
                            /\ SumOf(stg) = calls[1].output
                /\ k >= 2 => /\ Len(calls) = k + 1
                             /\ \A i \in 1..k : calls[i].input = P[i]
                             /\ calls[k + 1].input = JoinSpace(Outputs(calls, k))
                             /\ SumOf(stg) = calls[k + 1].output
                /\ (Len(TextOf(stg)) = 4000 /\ strip(TextOf(stg)) = TextOf(stg))
                      => k = 3 /\ Len(calls) = 4

C2_Witness ==
    /\ SummReturned("profile") /\ SummReturned("posts")
    /\ Len(profile_text) = 4000 /\ Len(sum_calls.profile) = 4
    /\ Len(posts_text) = 1 /\ Len(sum_calls.posts) = 1

\* C3: a summarizer failure on one chunk does not abort summarize_long_text:
\* the chunk's summary becomes an error-marker placeholder, the other chunks
\* are still summarized and the operation returns a result.
C3_ChunkFailureDegrades ==
    \A stg \in {"profile", "posts"} :
        \A i \in 1..Len(sum_calls[stg]) :
            (~sum_calls[stg][i].ok
                /\ i <= Len(chunk_text(TextOf(stg), CHUNK_SIZE, OVERLAP)))
            => /\ exc # "summarizer"
               /\ \/ SummReturned(stg)
                  \/ (pc \in {"summ", "merge"} /\ Len(summaries) >= i
                        /\ summaries[i] = <<"[summary error]">>)

HasBraceSpan(s) ==
    find(s, LBRACE) # -1 /\ rfind(s, RBRACE) # -1 /\ rfind(s, RBRACE) > find(s, LBRACE)

AllStrategiesFail(s) ==
    /\ ~json_loads(BraceSpan(strip(s))).ok
    /\ ~json_loads(Normalize(BraceSpan(strip(s)))).ok

\* C4: when the generated text has no {...} span, or has one that fails both
\* parse strategies, the result is a RawBrief whose content is the full
\* generated text verbatim.
C4_FallbackKeepsTextVerbatim ==
    (GeneratorAnswered /\ (~HasBraceSpan(raw) \/ AllStrategiesFail(raw)))
        => brief = VDict(<<"raw_text">>, <<VStr(raw)>>)

\* C5: whatever the generator returns, synthesis yields exactly one of the
\* two result shapes, BriefSections or RawBrief, never both and never a value
\* that is neither, and the display step handles it.
C5_ExactlyOneResultShape ==
    AfterSynthesis =>
        /\ IsBriefSections(brief) # IsRawBrief(brief)
        /\ exc # "render"

\* C6: in a BriefSections result every list-valued section has at most
\* max_output_bullets entries.
C6_BulletCap ==
    (AfterSynthesis /\ IsBriefSections(brief)) =>
        \A i \in 1..Len(brief.items) :
            brief.items[i].t = "list" => Len(brief.items[i].items) <= max_output_bullets

\* C7: with include_agenda false the instruction text asks for no agenda
\* section and neither the page nor the markdown export has an Agenda heading.
C7_NoAgendaWhenDisabled ==
    ~include_agenda =>
        /\ \A i \in 1..Len(gen_calls) :
              "meeting_agenda" \notin Range(gen_calls[i].input.lines)
        /\ "**Suggested Agenda:**" \notin Range(screen)
        /\ "## Suggested Agenda" \notin Range(md_content)

CapabilityFailed ==
    \/ \E stg \in {"profile", "posts"} :
          \E i \in 1..Len(sum_calls[stg]) : ~sum_calls[stg][i].ok
    \/ \E i \in 1..Len(gen_calls) : ~gen_calls[i].ok

\* C8: a failure of the summarizer or the generator is caught at the pipeline
\* boundary and reported as a stage-failed outcome naming the stage; no brief
\* is rendered and no exception reaches the display layer.
C8_StageFailureReported ==
    CapabilityFailed =>
        /\ exc = "none"
        /\ \E m \in Range(screen) :
              m \in {"Summarization stage failed", "Generation stage failed"}
        /\ md_content = <<>>

\* C9 as stated: in every run that reaches synthesis, for every engine, the
\* generator is invoked exactly once.
C9_GeneratorOnceForEveryEngine ==
    AfterSynthesis => Len(gen_calls) = 1

\* C9 amended: the generator is invoked exactly once when the engine has a
\* generator (Fast, Quality) and not at all with the summarization-only
\* engine; never more than once, and only after both summarizations returned.
C9_GeneratorOnceUnlessSummOnly ==
    /\ Len(gen_calls) <= 1
    /\ engine = SummOnly => gen_calls = <<>>
    /\ AfterSynthesis => Len(gen_calls) = (IF engine = SummOnly THEN 0 ELSE 1)
    /\ gen_calls # <<>> =>
          /\ SummReturned("profile") /\ SummReturned("posts")
          /\ gen_calls[1].summarizer_calls
                = Len(sum_calls.profile) + Len(sum_calls.posts)
          /\ gen_calls[1].input.profile_summary = profile_sum
          /\ gen_calls[1].input.posts_summary = posts_sum

C9_Witness ==
    /\ pc = "done" /\ engine = Fast
    /\ profile_text = <<>> /\ posts_text = <<>>
    /\ Len(gen_calls) = 1 /\ gen_calls[1].ok

----------------------------------------------------------------------------
\* --- chunk_text as a step machine ---

ChunkAlphabet == {"a", "b", " "}

PipelineIdle ==
    /\ engine = Fast /\ max_output_bullets = MinBullets
    /\ include_agenda = TRUE /\ include_dm_email = TRUE
    /\ profile_text = <<>> /\ posts_text = <<>> /\ goal_text = <<>>
    /\ pc = "off" /\ stage = "none" /\ parts = <<>> /\ summaries = <<>>
    /\ profile_sum = <<>> /\ posts_sum = <<>>
    /\ sum_calls = [profile |-> <<>>, posts |-> <<>>]
    /\ template = <<>> /\ raw = <<>> /\ brief = <<>> /\ gen_calls = <<>>
    /\ screen = <<>> /\ md_content = <<>> /\ exc = "none"

InitChunk ==
    /\ text \in SeqsUpTo(ChunkAlphabet, MaxLen)
    /\ chunk_size \in 1..MaxChunk
    /\ overlap \in 0..(chunk_size - 1)
    /\ stripped = <<>> /\ start = 0 /\ chunks = <<>> /\ spans = <<>> /\ cpc = "call"
    /\ PipelineIdle

\* lines 62-67: strip, the empty test, the locals
ChunkCall ==
    /\ cpc = "call"
    /\ stripped' = strip(text)
    /\ start' = 0 /\ chunks' = <<>> /\ spans' = <<>>
    /\ cpc' = IF strip(text) = <<>> THEN "done" ELSE "loop"
    /\ UNCHANGED <<text, chunk_size, overlap>>

\* lines 68-76: the loop test and one iteration of the while loop
ChunkIter ==
    /\ cpc = "loop"
    /\ IF ~(start < Len(stripped))
       THEN cpc' = "done" /\ UNCHANGED <<start, chunks, spans>>
       ELSE LET end == ChunkEnd(start, chunk_size, Len(stripped)) IN
            /\ chunks' = Append(chunks, Slice(stripped, start, end))
            /\ spans' = Append(spans, <<start, end>>)
            /\ IF end = Len(stripped)
               THEN cpc' = "done" /\ start' = start
               ELSE cpc' = "loop" /\ start' = NextStart(end, overlap)
    /\ UNCHANGED <<text, stripped, chunk_size, overlap>>

ChunkUnchangedRest ==
    UNCHANGED <<inputVars, pc, summVars, genVars, viewVars, exc>>

NextChunk ==
    \/ ChunkCall /\ ChunkUnchangedRest
    \/ ChunkIter /\ ChunkUnchangedRest

SpecChunk == InitChunk /\ [][NextChunk]_vars

\* chunk_text is straight-line sequential code: an enabled step is taken
FairSpecChunk == SpecChunk /\ WF_vars(NextChunk)

----------------------------------------------------------------------------
(* Properties of chunk_text *)

CeilDiv(a, b) == (a + b - 1) \div b

\* the spans, in order, cover t with no gap, start at 0 and end at len(t)
Covers(t) ==
    /\ spans # <<>>
    /\ spans[1][1] = 0
    /\ spans[Len(spans)][2] = Len(t)
    /\ \A i \in 2..Len(spans) : spans[i][1] <= spans[i - 1][2]
    /\ \A p \in 0..(Len(t) - 1) :
          \E i \in 1..Len(spans) : spans[i][1] <= p /\ p < spans[i][2]
    /\ Len(chunks) = Len(spans)
    /\ \A i \in 1..Len(chunks) :
          chunks[i] = SubSeq(t, spans[i][1] + 1, spans[i][2])

ChunksBounded == \A i \in 1..Len(chunks) : Len(chunks[i]) <= chunk_size

\* C1 as stated: the chunks returned by chunk_text cover the entire
\* original text (first span starts at 0, last ends at len(text), no gaps)
\* and every chunk has length <= chunk_size.
C1_CoversOriginalText ==
    (cpc = "done" /\ text # <<>>) => (Covers(text) /\ ChunksBounded)

\* C1 amended: the chunks cover the text with its leading and trailing
\* whitespace stripped (first span starts at 0, last ends at
\* len(text.strip()), no gaps); a text that strips to nothing gives no
\* chunk; every chunk has length <= chunk_size.
C1_CoversStrippedText ==
    cpc = "done" =>
        /\ ChunksBounded
        /\ IF strip(text) = <<>> THEN chunks = <<>> ELSE Covers(strip(text))

C1_Witness ==
    /\ cpc = "done" /\ Len(chunks) >= 2 /\ overlap > 0
    /\ Len(strip(text)) < Len(text)

\* C10 (safety part): each chunk starts strictly after the previous one and
\* the number of chunks never exceeds ceil(len(text) / (chunk_size - overlap)).
ChunkProgress ==
    /\ \A i \in 2..Len(spans) : spans[i][1] > spans[i - 1][1]
    /\ text # <<>> => Len(chunks) <= CeilDiv(Len(text), chunk_size - overlap)

\* C10: for any non-empty text the chunk_text loop terminates, with strictly
\* increasing start offsets and at most ceil(len(text) / (chunk_size -
\* overlap)) chunks.
C10_Terminates == []ChunkProgress /\ <>(cpc = "done")

C10_Witness ==
    /\ cpc = "done" /\ Len(chunks) >= 2 /\ overlap > 0
    /\ Len(chunks) = CeilDiv(Len(text), chunk_size - overlap)

====
